---- MODULE Spec2Model ----
(***************************************************************************)
(* Crawl orchestrator of the hotel crawler: the React renderer             *)
(* (src/App.tsx), the Electron main process handlers (src/electron.cjs),   *)
(* the crawler's page-fetch steps (src/crawlers/bookingCrawler.js) and the *)
(* task store (src/database/taskDatabase.cjs).                             *)
(*                                                                         *)
(* React state and refs.  A state variable (queue, isRunning, config)      *)
(* holds the value the queued updaters produce; the matching ref           *)
(* (queueRef, runningRef, configRef) holds the value of the last commit,   *)
(* because the refs are written by passive effects (App.tsx:40-42).        *)
(* Updates made by a timer callback or a promise continuation are          *)
(* committed by the separate action Commit; updates made by an operator    *)
(* event (click, input change) are rendered and their effects flushed      *)
(* within the event, so an operator action ends with the refs in sync.     *)
(* The values closed over by the rendered handlers (isRunning in the       *)
(* Start/Pause button, the task rows) are those of the last commit, that   *)
(* is, the refs.                                                           *)
(*                                                                         *)
(* Time.  Tick is one period of the 1000 ms scheduling interval            *)
(* (App.tsx:220).  A post-task delay timer (App.tsx:191-194) carries the   *)
(* number of whole periods left before it is due; a due timer fires before *)
(* the next period ends.  A commit and the callback of a due timer take    *)
(* milliseconds: browser operations, operator events and the passing of a  *)
(* period happen between them, in a state where nothing is pending         *)
(* (Quiescent).  The 500 ms debounce of the auto-save is not modelled: the *)
(* committed queue is saved when it is committed, once the initial load    *)
(* has resolved (the load resolves within the first debounce and the first *)
(* period).  The operator changes config.concurrency and, in BatchSpec,    *)
(* config.batchWait: delayPerLink and batchWaitTime keep their initial     *)
(* values.  The log stream is followed in LogSpec only.  The min and max   *)
(* attributes of the concurrency input do not restrict what is typed into  *)
(* it: the values are -1 and 0..MaxConcurrencyInput.                       *)
(*                                                                         *)
(* The hotel page.  The orchestrator specifications follow a crawl as      *)
(* init, navigate, extract; what extract reads is followed in CrawlerSpec, *)
(* where page is the loaded document as the field resolvers see it, crawl  *)
(* is the position of crawlHotel with the constants it has bound, and the  *)
(* resolvers are operators on the page.  A page differs from the blank     *)
(* page in what one resolver reads.  Review scores are in tenths; the      *)
(* region and country of getLocationDetails, the content of the house      *)
(* rules and the second and third image selectors are left out.            *)
(***************************************************************************)
EXTENDS Integers, Sequences, FiniteSets, TLC

\* ---- bounds of the model ------------------------------------------------
MaxTasks == 2         \* tasks ever added to the queue
MaxInflight == 2      \* crawl-hotel invocations and browsers alive at once
MaxTimers == 1        \* post-task delay timers pending at once
MaxRestarts == 1      \* application restarts
MaxUrlsPerAdd == 1    \* lines of the URL input submitted by one click

\* ---- program constants --------------------------------------------------
InitialConcurrency == 2     \* INITIAL_CONFIG.concurrency
InitialDelayPerLink == 2    \* INITIAL_CONFIG.delayPerLink, in seconds
InitialBatchWait == 10      \* INITIAL_CONFIG.batchWait, in tasks
InitialBatchWaitTime == 30  \* INITIAL_CONFIG.batchWaitTime, in seconds
MaxConcurrencyInput == 2    \* largest value typed into the concurrency input
MaxBatchWaitInput == 1      \* largest value typed into the batch wait input
MaxAppends == 120           \* log entries appended before the stream is emptied
MaxItems == 2               \* elements of a page matched by one list selector
LogKeep == 99               \* entries of the stream kept by an append: prev.slice(-99)

UNSET == "UNSET"            \* undefined / null field of a task
NoTime == 0                 \* finishedAt undefined

VARIABLES
    queue,            \* useState<Task[]>: the task list (pending updates applied)
    queueRef,         \* queueRef.current: the task list of the last commit
    isRunning,        \* useState(false)
    runningRef,       \* runningRef.current
    config,           \* useState(INITIAL_CONFIG)
    configRef,        \* configRef.current
    activeTaskCount,  \* useState(0)
    timers,           \* pending setTimeout(checkQueue, delayPerLink*1000): periods left -> count
    loadPending,      \* the getAllTasks() promise of the mount effect is unresolved
    crawlers,         \* main process: BookingCrawler instances of crawl-hotel invocations
    activeCrawlers,   \* main process: Map taskId -> crawler instance (0 = no entry)
    db,               \* task store: rows of table tasks
    now,              \* Date.now(), advanced between operator add clicks
    nextId,           \* tasks created so far (ids are fresh random strings)
    restarts,         \* application restarts so far
    cancelled,        \* main process: crawler instances closed by stop-crawl
    BookingCrawler,   \* main process: the crawler module was imported (else null)
    taskDb,           \* main process: the task store was opened (else null)
    globalLogs,       \* useState<LogEntry[]>: the global log stream
    logCount,         \* entries appended to the stream since it was last empty
    page,             \* crawler: the hotel page the browser session has navigated to
    crawl             \* crawler: position and resolved fields of crawlHotel on that page

vars == <<queue, queueRef, isRunning, runningRef, config, configRef,
          activeTaskCount, timers, loadPending, crawlers, activeCrawlers,
          db, now, nextId, restarts, cancelled, BookingCrawler, taskDb,
          globalLogs, logCount, page, crawl>>

\* what the main process found at startup
envVars == <<BookingCrawler, taskDb>>

logVars == <<globalLogs, logCount>>

pageVars == <<page, crawl>>

rendererVars == <<queue, queueRef, isRunning, runningRef, config, configRef,
                  activeTaskCount, timers, loadPending>>

TaskIds == 1..MaxTasks
Slots == 1..MaxInflight

\* ---- pure helpers -------------------------------------------------------

IdsOf(q) == {q[i].id : i \in DOMAIN q}

TaskOf(q, id) == q[CHOOSE i \in DOMAIN q : q[i].id = id]

\* currentQueue.filter(t => t.status === PROCESSING).length
ProcessingCount(q) == Cardinality({i \in DOMAIN q : q[i].status = "PROCESSING"})

\* find that takes a task in ERROR for a waiting one
FindWaitingOrError(q) ==
    IF \E i \in DOMAIN q : q[i].status \in {"WAITING", "ERROR"}
    THEN CHOOSE i \in DOMAIN q :
            /\ q[i].status \in {"WAITING", "ERROR"}
            /\ \A j \in DOMAIN q : q[j].status \in {"WAITING", "ERROR"} => i <= j
    ELSE 0

\* currentQueue.find(t => t.status === WAITING): index of the first one, 0 if none
FindWaiting(q) ==
    IF \E i \in DOMAIN q : q[i].status = "WAITING"
    THEN CHOOSE i \in DOMAIN q :
            /\ q[i].status = "WAITING"
            /\ \A j \in DOMAIN q : q[j].status = "WAITING" => i <= j
    ELSE 0

NewTask(id, t) ==
    [id |-> id, status |-> "WAITING", progress |-> 0, result |-> UNSET,
     error |-> UNSET, createdAt |-> t, finishedAt |-> NoTime]

\* a reset that forgets to clear the result
ResetFieldsKeepingResult(t) ==
    [t EXCEPT !.status = "WAITING", !.progress = 0, !.error = UNSET, !.finishedAt = NoTime]

\* the fields a reset writes (App.tsx:288-292, 316-320)
ResetFields(t) ==
    [t EXCEPT !.status = "WAITING", !.progress = 0, !.error = UNSET,
              !.result = UNSET, !.finishedAt = NoTime]

NoCrawler == [task |-> 0, pc |-> "free", open |-> FALSE]

Committed == queueRef = queue /\ runningRef = isRunning /\ configRef = config

RECURSIVE SumUpTo(_, _)
SumUpTo(f, n) == IF n < 0 THEN 0 ELSE f[n] + SumUpTo(f, n - 1)

\* number of pending delay timers
TimerCount == SumUpTo(timers, InitialDelayPerLink)

\* INITIAL_CONFIG (App.tsx:11-18)
INITIAL_CONFIG ==
    [concurrency |-> InitialConcurrency, delayPerLink |-> InitialDelayPerLink,
     batchWait |-> InitialBatchWait, batchWaitTime |-> InitialBatchWaitTime]

\* ---- crawler: the hotel page ---------------------------------------------

NULL == "null"              \* null / undefined where a string is expected
NoNumber == -1              \* null / undefined where a number is expected
NoElement == "NoElement"    \* document.querySelector(selector) found no element

\* text of the element matched by the k-th selector of a cascade, when it has
\* text; " " is the text of an element holding white space only
SelectorText == <<" first ", " second ", " third ", " fourth ">>

\* String.prototype.trim on the texts of the model
Trim(t) ==
    CASE t = " " -> ""
      [] t = " first " -> "first"
      [] t = " second " -> "second"
      [] t = " third " -> "third"
      [] t = " fourth " -> "fourth"
      [] t = " WiFi " -> "WiFi"
      [] OTHER -> t

\* what the selectors of a cascade of n selectors match on a page
CascadeElements(n) ==
    {e \in [1..n -> {NoElement, " "} \cup {SelectorText[k] : k \in 1..n}] :
        \A k \in 1..n : e[k] \in {NoElement, " ", SelectorText[k]}}

\* sequences of at most n elements of S
RECURSIVE SeqsUpTo(_, _)
SeqsUpTo(S, n) ==
    IF n = 0 THEN {<<>>}
    ELSE LET shorter == SeqsUpTo(S, n - 1)
         IN  shorter \cup {Append(q, x) : q \in shorter, x \in S}

\* schemaData.address: absent, a string, or a PostalAddress object with or
\* without streetAddress
SchemaAddresses ==
    {[form |-> "none", value |-> NULL], [form |-> "string", value |-> "schema address"],
     [form |-> "object", value |-> "schema street"], [form |-> "object", value |-> NULL]}

\* a page on which nothing is found
BlankPage ==
    [session |-> "open",
     schemaName |-> NULL, schemaAddress |-> [form |-> "none", value |-> NULL],
     schemaDescription |-> NULL, schemaLocality |-> NULL,
     schemaStars |-> NoNumber, schemaAggregate |-> NoNumber,
     nameEls |-> [k \in 1..4 |-> NoElement],
     addressEls |-> [k \in 1..4 |-> NoElement],
     aboutTestId |-> NoElement,
     aboutEls |-> [k \in 1..3 |-> NoElement],
     domStars |-> NoNumber,
     facilityItems |-> <<>>, facilityFallback |-> <<>>,
     faqItems |-> <<>>, faqFallback |-> <<>>,
     jsonCity |-> NULL, houseRules |-> NULL, areaInfo |-> <<>>,
     galleryFails |-> FALSE, gallerySrcs |-> <<>>]

\* no crawl of a page is followed
IdleCrawl == [pc |-> "idle"]

NoHotelPage == page = BlankPage /\ crawl = IdleCrawl

\* renderer and main process after construction, the task store empty
InitState ==
    /\ queue = <<>>
    /\ queueRef = <<>>
    /\ isRunning = FALSE
    /\ runningRef = FALSE
    /\ config = INITIAL_CONFIG
    /\ configRef = INITIAL_CONFIG
    /\ activeTaskCount = 0
    /\ timers = [r \in 0..InitialDelayPerLink |-> 0]
    /\ loadPending = TRUE
    /\ crawlers = [s \in Slots |-> NoCrawler]
    /\ activeCrawlers = [id \in TaskIds |-> 0]
    /\ db = {}
    /\ now = 1
    /\ nextId = 0
    /\ restarts = 0
    /\ cancelled = {}
    /\ globalLogs = <<>>
    /\ logCount = 0

\* the crawler module was imported and the task store opened
\* (electron.cjs:203-219)
Init ==
    /\ InitState
    /\ NoHotelPage
    /\ BookingCrawler = TRUE
    /\ taskDb = TRUE

\* no commit and no due timer callback is pending
Quiescent == Committed /\ timers[0] = 0

\* ---- renderer: processTask, checkQueue ----------------------------------

FreeSlots == {s \in Slots : crawlers[s].pc = "free"}

\* processTask up to its await (App.tsx:114-132) and the start of the
\* crawl-hotel handler in the main process (electron.cjs:57-82): the task is
\* set to PROCESSING, the active count incremented, a crawler instance
\* created and stored under the task id.
StartTask(id) ==
    /\ FreeSlots # {}
    /\ LET s == CHOOSE x \in FreeSlots : \A y \in FreeSlots : x <= y IN
         /\ crawlers' = [crawlers EXCEPT ![s] = [task |-> id, pc |-> "init", open |-> FALSE]]
         /\ activeCrawlers' = [activeCrawlers EXCEPT ![id] = s]
    /\ queue' = [i \in DOMAIN queue |->
                    IF queue[i].id = id THEN [queue[i] EXCEPT !.status = "PROCESSING"] ELSE queue[i]]
    /\ activeTaskCount' = activeTaskCount + 1

\* checkQueue with the test processing <= limit
CheckDecisionAtLimit ==
    IF ~runningRef THEN "return"
    ELSE IF ProcessingCount(queueRef) <= configRef.concurrency
         THEN IF FindWaiting(queueRef) # 0 THEN "start"
              ELSE IF ProcessingCount(queueRef) = 0
                      /\ \A i \in DOMAIN queueRef : queueRef[i].status # "WAITING"
                   THEN "finish"
                   ELSE "none"
         ELSE "none"

\* The decision checkQueue takes on the snapshot it reads from the refs.
CheckDecision ==
    IF ~runningRef THEN "return"
    ELSE IF ProcessingCount(queueRef) < configRef.concurrency
         THEN IF FindWaiting(queueRef) # 0 THEN "start"
              ELSE IF ProcessingCount(queueRef) = 0
                      /\ \A i \in DOMAIN queueRef : queueRef[i].status # "WAITING"
                   THEN "finish"
                   ELSE "none"
         ELSE "none"

\* checkQueue (App.tsx:199-215); leaves timers to the caller.
checkQueue ==
    CASE CheckDecision = "start" ->
            /\ StartTask(queueRef[FindWaiting(queueRef)].id)
            /\ UNCHANGED isRunning
      [] CheckDecision = "finish" ->
            /\ isRunning' = FALSE
            /\ UNCHANGED <<queue, activeTaskCount, crawlers, activeCrawlers>>
      [] OTHER ->
            UNCHANGED <<queue, isRunning, activeTaskCount, crawlers, activeCrawlers>>

\* One period of setInterval(checkQueue, 1000) (App.tsx:218-223): the
\* interval exists while the committed isRunning is true; every pending
\* delay timer is one period closer to firing.
Tick ==
    /\ Quiescent
    /\ ~loadPending
    /\ timers' = [r \in DOMAIN timers |-> IF r + 1 \in DOMAIN timers THEN timers[r + 1] ELSE 0]
    /\ IF runningRef THEN checkQueue
       ELSE UNCHANGED <<queue, isRunning, activeTaskCount, crawlers, activeCrawlers>>
    /\ UNCHANGED <<queueRef, runningRef, config, configRef, loadPending, db, now, nextId, restarts, cancelled, envVars, logVars, pageVars>>

\* The callback of a due delay timer: setTimeout(() => checkQueue(), ...)
DelayTimerFire ==
    /\ timers[0] > 0
    /\ timers' = [timers EXCEPT ![0] = @ - 1]
    /\ checkQueue
    /\ UNCHANGED <<queueRef, runningRef, config, configRef, loadPending, db, now, nextId, restarts, cancelled, envVars, logVars, pageVars>>

\* ---- main process: crawl-hotel, and the continuation of processTask ------

\* Messages of the errors a browser operation throws.
FailMessages == {"", "Navigation timeout"}

\* response.error || 'Crawl failed' (App.tsx:134-136)
ThrownMessage(responseError) == IF responseError = "" THEN "Crawl failed" ELSE responseError

\* setTimeout(() => checkQueue(), configRef.current.delayPerLink * 1000)
AddTimer == [timers EXCEPT ![configRef.delayPerLink] = @ + 1]

\* a variant of the catch block whose setQueue marks every task
TaskFailedForAll(id, responseError) ==
    /\ queue' = [i \in DOMAIN queue |->
                    [queue[i] EXCEPT !.status = "ERROR",
                                     !.error = ThrownMessage(responseError),
                                     !.finishedAt = now]]
    /\ activeTaskCount' = activeTaskCount - 1
    /\ timers' = AddTimer

\* processTask after a failed response: catch and finally (App.tsx:175-195)
TaskFailed(id, responseError) ==
    /\ queue' = [i \in DOMAIN queue |->
                    IF queue[i].id = id
                    THEN [queue[i] EXCEPT !.status = "ERROR",
                                          !.error = ThrownMessage(responseError),
                                          !.finishedAt = now]
                    ELSE queue[i]]
    /\ activeTaskCount' = activeTaskCount - 1
    /\ timers' = AddTimer

\* processTask after a successful response: result mapping, setQueue and
\* finally (App.tsx:138-173, 187-195)
TaskCompleted(id) ==
    /\ queue' = [i \in DOMAIN queue |->
                    IF queue[i].id = id
                    THEN [queue[i] EXCEPT !.status = "COMPLETED", !.result = "record",
                                          !.progress = 100, !.finishedAt = now]
                    ELSE queue[i]]
    /\ activeTaskCount' = activeTaskCount - 1
    /\ timers' = AddTimer

\* crawl-hotel catch block (electron.cjs:96-111) run by instance s: the
\* crawler found under the task id is closed and the entry deleted; s itself
\* is closed only if it is that crawler.
HandlerCatch(s) ==
    LET id == crawlers[s].task
        c == activeCrawlers[id]
        closed == IF c = 0 THEN crawlers ELSE [crawlers EXCEPT ![c].open = FALSE]
    IN  /\ crawlers' = [closed EXCEPT ![s] =
                            IF closed[s].open
                            THEN [task |-> id, pc |-> "leaked", open |-> TRUE]
                            ELSE NoCrawler]
        /\ activeCrawlers' = [activeCrawlers EXCEPT ![id] = 0]

\* crawl-hotel success path (electron.cjs:89-95): close own browser, delete
\* the entry of the task id.
HandlerReturn(s) ==
    /\ crawlers' = [crawlers EXCEPT ![s] = NoCrawler]
    /\ activeCrawlers' = [activeCrawlers EXCEPT ![crawlers[s].task] = 0]

CrawlFails(s, msg) ==
    /\ Quiescent
    /\ TimerCount < MaxTimers
    /\ HandlerCatch(s)
    /\ TaskFailed(crawlers[s].task, msg)
    /\ cancelled' = cancelled \ {s}
    /\ UNCHANGED <<queueRef, isRunning, runningRef, config, configRef, loadPending,
                   db, now, nextId, restarts, envVars, logVars, pageVars>>

\* crawler.init(): puppeteer.launch and newPage (bookingCrawler.js:24-57)
CrawlInitOk(s) ==
    /\ Quiescent
    /\ BookingCrawler
    /\ crawlers[s].pc = "init"
    /\ crawlers' = [crawlers EXCEPT ![s].pc = "nav", ![s].open = TRUE]
    /\ UNCHANGED <<rendererVars, activeCrawlers, db, now, nextId, restarts, cancelled, envVars, logVars, pageVars>>

CrawlInitFail(s) ==
    /\ BookingCrawler
    /\ crawlers[s].pc = "init"
    /\ \E msg \in FailMessages : CrawlFails(s, msg)

\* crawl-hotel without the crawler module (electron.cjs:59-61): the handler
\* throws before it creates a crawler, its catch block finds no entry of its
\* own, and the response is a failure.
CrawlModuleMissing(s) ==
    /\ ~BookingCrawler
    /\ crawlers[s].pc = "init"
    /\ CrawlFails(s, "BookingCrawler module not loaded")

\* stop-crawl (electron.cjs:115-127) for a task id: the crawler stored under
\* the id is closed and its entry deleted; close() of a crawler whose browser
\* is not launched yet does nothing (bookingCrawler.js:885-891).  Without an
\* entry the handler answers 'Crawler not found'.  The renderer never
\* invokes the handler (preload.cjs exposes it as stopCrawl).
StopCrawl(id) ==
    /\ Quiescent
    /\ activeCrawlers[id] # 0
    /\ crawlers' = [crawlers EXCEPT ![activeCrawlers[id]].open = FALSE]
    /\ activeCrawlers' = [activeCrawlers EXCEPT ![id] = 0]
    /\ cancelled' = cancelled \cup {activeCrawlers[id]}
    /\ UNCHANGED <<rendererVars, db, now, nextId, restarts, envVars, logVars, pageVars>>

\* crawlHotel: page.goto (bookingCrawler.js:785-797)
CrawlNavigateOk(s) ==
    /\ Quiescent
    /\ crawlers[s].pc = "nav"
    /\ crawlers[s].open
    /\ crawlers' = [crawlers EXCEPT ![s].pc = "fields"]
    /\ UNCHANGED <<rendererVars, activeCrawlers, db, now, nextId, restarts, cancelled, envVars, logVars, pageVars>>

CrawlNavigateFail(s) ==
    /\ crawlers[s].pc = "nav"
    /\ \E msg \in FailMessages : CrawlFails(s, msg)

\* crawlHotel after the navigation: scroll, resolvers, record
\* (bookingCrawler.js:799-850), then close and the success response.
CrawlHotelOk(s) ==
    /\ Quiescent
    /\ TimerCount < MaxTimers
    /\ crawlers[s].pc = "fields"
    /\ HandlerReturn(s)
    /\ TaskCompleted(crawlers[s].task)
    /\ cancelled' = cancelled \ {s}
    /\ UNCHANGED <<queueRef, isRunning, runningRef, config, configRef, loadPending,
                   db, now, nextId, restarts, envVars, logVars, pageVars>>

\* autoScroll's page.evaluate is outside any try/catch of a resolver
CrawlHotelFail(s) ==
    /\ crawlers[s].pc = "fields"
    /\ \E msg \in FailMessages : CrawlFails(s, msg)

\* ---- task store (taskDatabase.cjs) --------------------------------------

\* saveTask: the row written for a task (taskDatabase.cjs:63-88)
SaveRow(t) == [t EXCEPT !.error = IF t.error = "" THEN UNSET ELSE t.error]

\* rowToTask (taskDatabase.cjs:213-227)
rowToTask(row) == row

\* INSERT OR REPLACE of every task of q
SaveAll(rows, q) ==
    {r \in rows : r.id \notin IdsOf(q)} \cup {SaveRow(q[i]) : i \in DOMAIN q}

\* getAllTasks: SELECT * FROM tasks ORDER BY created_at DESC
\* (taskDatabase.cjs:130-139); rows of equal created_at come in any order.
getAllTasks(rows) ==
    {q \in [1..Cardinality(rows) -> rows] :
        /\ \A i, j \in DOMAIN q : i # j => q[i] # q[j]
        /\ \A i, j \in DOMAIN q : i < j => q[i].createdAt >= q[j].createdAt}

\* ---- renderer: effects ---------------------------------------------------

\* Load tasks from database on mount (App.tsx:69-80): the promise resolves
\* and setQueue(result.data) replaces the queue.  Without a task store the
\* reply is { success: false } (electron.cjs:142-152) and nothing is set.
LoadResolve ==
    /\ Quiescent
    /\ loadPending
    /\ loadPending' = FALSE
    /\ IF taskDb
       THEN \E rows \in getAllTasks(db) : queue' = [i \in DOMAIN rows |-> rowToTask(rows[i])]
       ELSE queue' = queue
    /\ UNCHANGED <<queueRef, isRunning, runningRef, config, configRef, activeTaskCount,
                   timers, crawlers, activeCrawlers, db, now, nextId, restarts, cancelled, envVars, logVars, pageVars>>

\* Auto-save effect (App.tsx:83-96) of a commit whose queue is q: every
\* task of a non-empty queue is saved.  The load of the mount effect resolves
\* before the debounce of a save elapses.  Without a task store db-save-task
\* answers { success: false } (electron.cjs:130-140) and no row is written;
\* the store, never opened, holds no row that a delete could remove.
AutoSave(rows, q) == IF Len(q) > 0 /\ ~loadPending /\ taskDb THEN SaveAll(rows, q) ELSE rows

\* a variant that marks every task failed when the saves are refused
AfterSaveRepliesMarkingError(q) ==
    IF taskDb THEN q ELSE [i \in DOMAIN q |-> [q[i] EXCEPT !.status = "ERROR"]]

\* The queue after the replies of the saveTask calls of the auto-save
\* (App.tsx:87-91): a rejected call is written to the console, the reply of
\* a resolved one is not looked at, and no state is set.
AfterSaveReplies(q) == q

\* React commits the pending updates: the ref-sync effects (App.tsx:40-42)
\* and the auto-save effect run.
Commit ==
    /\ ~Committed
    /\ queueRef' = queue
    /\ runningRef' = isRunning
    /\ configRef' = config
    /\ db' = AutoSave(db, queue)
    /\ queue' = AfterSaveReplies(queue)
    /\ UNCHANGED <<isRunning, config, activeTaskCount, timers, loadPending,
                   crawlers, activeCrawlers, now, nextId, restarts, cancelled, envVars, logVars, pageVars>>

\* ---- operator actions ----------------------------------------------------

\* The synchronous render of an operator event: the refs are in sync and the
\* auto-save effect runs on the store left by the handler.
Flushed(rows) ==
    /\ queueRef' = queue'
    /\ runningRef' = isRunning'
    /\ configRef' = config'
    /\ db' = AutoSave(rows, queue')

\* handleAddLinks (App.tsx:227-242) with n non-empty lines in the input
handleAddLinks(n) ==
    /\ Quiescent
    /\ nextId + n <= MaxTasks
    /\ queue' = queue \o [k \in 1..n |-> NewTask(nextId + k, now)]
    /\ nextId' = nextId + n
    /\ now' = now + 1
    /\ UNCHANGED <<isRunning, config>>
    /\ Flushed(db)
    /\ UNCHANGED <<activeTaskCount, timers, loadPending, crawlers, activeCrawlers, restarts, cancelled, envVars, logVars, pageVars>>

\* Start/Pause button (App.tsx:375-379): setIsRunning(!isRunning)
ToggleRunning ==
    /\ Quiescent
    /\ isRunning' = ~isRunning
    /\ UNCHANGED <<queue, config>>
    /\ Flushed(db)
    /\ UNCHANGED <<activeTaskCount, timers, loadPending, crawlers, activeCrawlers, now, nextId, restarts, cancelled, envVars, logVars, pageVars>>

\* values typed into the concurrency input (type="number"): a negative
\* number, 0 (also standing for an empty or non-numeric text) and positive ones
ConcurrencyInputs == {-1} \cup 0..MaxConcurrencyInput

\* parseInt(e.target.value) || 1 (App.tsx:429)
ParseConcurrency(v) == IF v = 0 THEN 1 ELSE v

\* concurrency input onChange (App.tsx:424-431)
handleConcurrencyChange(v) ==
    /\ Quiescent
    /\ config' = [config EXCEPT !.concurrency = ParseConcurrency(v)]
    /\ config' # config
    /\ UNCHANGED <<queue, isRunning>>
    /\ Flushed(db)
    /\ UNCHANGED <<activeTaskCount, timers, loadPending, crawlers, activeCrawlers, now, nextId, restarts, cancelled, envVars, logVars, pageVars>>

\* positive values typed into the batch wait input (N, in links)
BatchWaitInputs == 1..MaxBatchWaitInput

\* batch wait input onChange (App.tsx:450-455); parseInt(e.target.value) || 0
\* of a positive number is the number
handleBatchWaitChange(v) ==
    /\ Quiescent
    /\ config' = [config EXCEPT !.batchWait = v]
    /\ config' # config
    /\ UNCHANGED <<queue, isRunning>>
    /\ Flushed(db)
    /\ UNCHANGED <<activeTaskCount, timers, loadPending, crawlers, activeCrawlers, now, nextId,
                   restarts, cancelled, envVars, logVars, pageVars>>

\* handleDeleteTask (App.tsx:268-284), from the row of a task
handleDeleteTask(id) ==
    /\ Quiescent
    /\ id \in IdsOf(queue)
    /\ queue' = SelectSeq(queue, LAMBDA t : t.id # id)
    /\ UNCHANGED <<isRunning, config>>
    /\ Flushed({r \in db : r.id # id})
    /\ UNCHANGED <<activeTaskCount, timers, loadPending, crawlers, activeCrawlers, now, nextId, restarts, cancelled, envVars, logVars, pageVars>>

\* handleResetTask (App.tsx:286-293); the button is rendered for COMPLETED
\* and ERROR rows only (App.tsx:667-670)
handleResetTask(id) ==
    /\ Quiescent
    /\ id \in IdsOf(queue)
    /\ TaskOf(queue, id).status \in {"COMPLETED", "ERROR"}
    /\ queue' = [i \in DOMAIN queue |->
                    IF queue[i].id = id THEN ResetFields(queue[i]) ELSE queue[i]]
    /\ UNCHANGED <<isRunning, config>>
    /\ Flushed(db)
    /\ UNCHANGED <<activeTaskCount, timers, loadPending, crawlers, activeCrawlers, now, nextId, restarts, cancelled, envVars, logVars, pageVars>>

\* handleBulkReset (App.tsx:313-323) with selectedTaskIds = sel, a set of
\* rows ticked by handleToggleSelect; the button is disabled while running
\* (App.tsx:565-566)
handleBulkReset(sel) ==
    /\ Quiescent
    /\ ~isRunning
    /\ sel # {}
    /\ sel \subseteq IdsOf(queue)
    /\ queue' = [i \in DOMAIN queue |->
                    IF queue[i].id \in sel THEN ResetFields(queue[i]) ELSE queue[i]]
    /\ UNCHANGED <<isRunning, config>>
    /\ Flushed(db)
    /\ UNCHANGED <<activeTaskCount, timers, loadPending, crawlers, activeCrawlers, now, nextId, restarts, cancelled, envVars, logVars, pageVars>>

\* handleBulkDelete (App.tsx:295-311) with selectedTaskIds = sel
handleBulkDelete(sel) ==
    /\ Quiescent
    /\ ~isRunning
    /\ sel # {}
    /\ sel \subseteq IdsOf(queue)
    /\ queue' = SelectSeq(queue, LAMBDA t : t.id \notin sel)
    /\ UNCHANGED <<isRunning, config>>
    /\ Flushed({r \in db : r.id \notin sel})
    /\ UNCHANGED <<activeTaskCount, timers, loadPending, crawlers, activeCrawlers, now, nextId, restarts, cancelled, envVars, logVars, pageVars>>

\* handleClearQueue (App.tsx:244-258)
handleClearQueue ==
    /\ Quiescent
    /\ ~isRunning
    /\ queue' = <<>>
    /\ UNCHANGED <<isRunning, config>>
    /\ Flushed({})
    /\ globalLogs' = <<>>
    /\ logCount' = 0
    /\ UNCHANGED <<activeTaskCount, timers, loadPending, crawlers, activeCrawlers, now, nextId,
                   restarts, cancelled, envVars, pageVars>>

\* The application is closed and started again: renderer and main process
\* start from their initial state, the task store is kept.
Restart ==
    /\ Quiescent
    /\ restarts < MaxRestarts
    /\ restarts' = restarts + 1
    /\ queue' = <<>>
    /\ queueRef' = <<>>
    /\ isRunning' = FALSE
    /\ runningRef' = FALSE
    /\ config' = INITIAL_CONFIG
    /\ configRef' = config'
    /\ activeTaskCount' = 0
    /\ timers' = [r \in 0..InitialDelayPerLink |-> 0]
    /\ loadPending' = TRUE
    /\ crawlers' = [s \in Slots |-> NoCrawler]
    /\ activeCrawlers' = [id \in TaskIds |-> 0]
    /\ cancelled' = {}
    /\ globalLogs' = <<>>
    /\ logCount' = 0
    /\ UNCHANGED <<db, now, nextId, envVars, pageVars>>

\* ---- crawler: field resolvers (bookingCrawler.js) ------------------------

\* everything but the page and the crawl of it
appVars == <<rendererVars, crawlers, activeCrawlers, db, now, nextId, restarts,
             cancelled, envVars, logVars>>

\* a string that is neither null nor empty (JavaScript truthiness)
Truthy(t) == t # NULL /\ t # ""

\* page.evaluate and page.goto reject on a closed session, and after
\* close() this.page is null
Throws(p) == p.session = "closed"

\* the loop of a selector cascade: the trimmed text of the element of the
\* first selector that matches one (bookingCrawler.js:131-137)
FirstMatch(els) ==
    IF \A k \in DOMAIN els : els[k] = NoElement THEN NULL
    ELSE Trim(els[CHOOSE k \in DOMAIN els :
                    els[k] # NoElement /\ \A j \in 1..(k - 1) : els[j] = NoElement])

\* schemaData of a page without a JSON-LD hotel object, or not evaluated
NoSchema == [name |-> NULL, address |-> [form |-> "none", value |-> NULL],
             description |-> NULL, locality |-> NULL]

\* getSchemaData (bookingCrawler.js:69-97)
getSchemaData(p) ==
    IF Throws(p) THEN NoSchema
    ELSE [name |-> p.schemaName, address |-> p.schemaAddress,
          description |-> p.schemaDescription, locality |-> p.schemaLocality]

\* getHotelName (bookingCrawler.js:114-142)
getHotelName(p, schemaData) ==
    IF Truthy(schemaData.name) THEN schemaData.name
    ELSE IF Throws(p) THEN NULL
    ELSE FirstMatch(p.nameEls)

\* getAddress (bookingCrawler.js:147-182)
getAddress(p, schemaData) ==
    IF schemaData.address.form = "string" /\ Truthy(schemaData.address.value)
    THEN schemaData.address.value
    ELSE IF schemaData.address.form = "object" /\ Truthy(schemaData.address.value)
    THEN schemaData.address.value
    ELSE IF Throws(p) THEN NULL
    ELSE FirstMatch(p.addressEls)

\* getLocationDetails (bookingCrawler.js:187-316), the city name; region
\* and country are resolved the same way
getLocationDetails(p, schemaData) ==
    IF Throws(p) THEN NULL
    ELSE IF Truthy(p.jsonCity) THEN p.jsonCity
    ELSE IF Truthy(schemaData.locality) THEN schemaData.locality
    ELSE NULL

\* getRating (bookingCrawler.js:321-368): the number of the "N out of 5"
\* label of the first rating element that has one, else a truthy
\* starRating.ratingValue of the JSON-LD data, else null
getRating(p) ==
    IF Throws(p) THEN NoNumber
    ELSE IF p.domStars # NoNumber THEN p.domStars
    ELSE IF p.schemaStars # NoNumber /\ p.schemaStars # 0 THEN p.schemaStars
    ELSE NoNumber

\* forEach(item => { text = item.textContent.trim();
\*                   if (text && !result.includes(text)) result.push(text) })
RECURSIVE CollectTexts(_, _)
CollectTexts(result, items) ==
    IF items = <<>> THEN result
    ELSE LET text == Trim(Head(items))
         IN  CollectTexts(IF Truthy(text) /\ \A i \in DOMAIN result : result[i] # text
                          THEN Append(result, text) ELSE result,
                          Tail(items))

\* getFacilities (bookingCrawler.js:373-421)
getFacilities(p) ==
    IF Throws(p) THEN <<>>
    ELSE IF CollectTexts(<<>>, p.facilityItems) # <<>>
    THEN CollectTexts(<<>>, p.facilityItems)
    ELSE CollectTexts(<<>>, p.facilityFallback)

\* forEach(el => { if (answerEl) result.push({ question, answer }) })
RECURSIVE CollectFaqs(_, _)
CollectFaqs(result, items) ==
    IF items = <<>> THEN result
    ELSE CollectFaqs(IF Head(items).answer # NoElement
                     THEN Append(result, [question |-> Trim(Head(items).question),
                                          answer |-> Trim(Head(items).answer)])
                     ELSE result,
                     Tail(items))

\* getFAQs (bookingCrawler.js:426-494)
getFAQs(p) ==
    IF Throws(p) THEN <<>>
    ELSE IF CollectFaqs(<<>>, p.faqItems) # <<>>
    THEN CollectFaqs(<<>>, p.faqItems)
    ELSE CollectFaqs(<<>>, p.faqFallback)

\* getAbout (bookingCrawler.js:499-539)
getAbout(p, schemaData) ==
    IF Throws(p) THEN NULL
    ELSE IF p.aboutTestId # NoElement /\ Truthy(Trim(p.aboutTestId)) THEN Trim(p.aboutTestId)
    ELSE IF Truthy(schemaData.description) THEN schemaData.description
    ELSE FirstMatch(p.aboutEls)

\* getHouseRules (bookingCrawler.js:544-628)
getHouseRules(p) == IF Throws(p) THEN NULL ELSE p.houseRules

\* getHotelAreaInfo (bookingCrawler.js:633-700)
getHotelAreaInfo(p) == IF Throws(p) THEN <<>> ELSE p.areaInfo

\* src.startsWith('http') on the sources of the model
StartsWithHttp(src) == src \in {"http://a", "http://b"}

\* forEach(picture => { if (src && !result.includes(src) &&
\*                          src.startsWith('http')) result.push(src) })
RECURSIVE CollectSrcs(_, _)
CollectSrcs(result, items) ==
    IF items = <<>> THEN result
    ELSE CollectSrcs(IF StartsWithHttp(Head(items)) /\ \A i \in DOMAIN result : result[i] # Head(items)
                     THEN Append(result, Head(items)) ELSE result,
                     Tail(items))

\* getImages (bookingCrawler.js:705-780): the gallery navigation, then the
\* sources of the pictures
getImages(p) ==
    IF Throws(p) \/ p.galleryFails THEN <<>>
    ELSE CollectSrcs(<<>>, p.gallerySrcs)

\* ---- crawler: crawlHotel on one page, and the result mapping -------------

\* the resolvers started together by Promise.all (bookingCrawler.js:813-818)
BasicResolvers == {"name", "address", "rating", "location"}

\* crawlHotel after page.goto and the first sleep (bookingCrawler.js:799)
StartedCrawl ==
    [pc |-> "scroll", done |-> {}, schemaData |-> NoSchema,
     name |-> NULL, address |-> NULL, rating |-> NoNumber, cityName |-> NULL,
     about |-> NULL, facilities |-> <<>>, houseRules |-> NULL, faqs |-> <<>>,
     hotelAreaInfo |-> <<>>, images |-> <<>>,
     stored |-> [name |-> NULL, address |-> NULL, rating |-> NoNumber,
                 reviewCount |-> NoNumber, ratingCategory |-> NULL]]

\* a variant in which the exception of a resolver leaves it
EscapesUncaught(threw) == threw

\* try { ... } catch (error) { return null } around the body of every
\* resolver: an exception thrown inside does not leave it
Escapes(threw) == FALSE

\* the position after a resolver that was awaited at position pc
AfterResolver(next) == IF Escapes(Throws(page)) THEN "failed" ELSE next

\* autoScroll (bookingCrawler.js:802, 859-880): page.evaluate outside any
\* try/catch but crawlHotel's own, which rethrows
autoScroll ==
    /\ crawl.pc = "scroll"
    /\ crawl' = [crawl EXCEPT !.pc = IF Throws(page) THEN "failed" ELSE "schema"]
    /\ UNCHANGED <<appVars, page>>

ResolveSchemaData ==
    /\ crawl.pc = "schema"
    /\ crawl' = [crawl EXCEPT !.schemaData = getSchemaData(page),
                              !.done = @ \cup {"schemaData"},
                              !.pc = AfterResolver("basic")]
    /\ UNCHANGED <<appVars, page>>

\* one of the four resolvers of Promise.all returns; the await ends with
\* the last of them
AfterBasic(r) ==
    IF BasicResolvers \subseteq crawl.done \cup {r} THEN AfterResolver("about")
    ELSE AfterResolver("basic")

ResolveHotelName ==
    /\ crawl.pc = "basic" /\ "name" \notin crawl.done
    /\ crawl' = [crawl EXCEPT !.name = getHotelName(page, crawl.schemaData),
                              !.done = @ \cup {"name"}, !.pc = AfterBasic("name")]
    /\ UNCHANGED <<appVars, page>>

ResolveAddress ==
    /\ crawl.pc = "basic" /\ "address" \notin crawl.done
    /\ crawl' = [crawl EXCEPT !.address = getAddress(page, crawl.schemaData),
                              !.done = @ \cup {"address"}, !.pc = AfterBasic("address")]
    /\ UNCHANGED <<appVars, page>>

ResolveRating ==
    /\ crawl.pc = "basic" /\ "rating" \notin crawl.done
    /\ crawl' = [crawl EXCEPT !.rating = getRating(page),
                              !.done = @ \cup {"rating"}, !.pc = AfterBasic("rating")]
    /\ UNCHANGED <<appVars, page>>

ResolveLocationDetails ==
    /\ crawl.pc = "basic" /\ "location" \notin crawl.done
    /\ crawl' = [crawl EXCEPT !.cityName = getLocationDetails(page, crawl.schemaData),
                              !.done = @ \cup {"location"}, !.pc = AfterBasic("location")]
    /\ UNCHANGED <<appVars, page>>

ResolveAbout ==
    /\ crawl.pc = "about"
    /\ crawl' = [crawl EXCEPT !.about = getAbout(page, crawl.schemaData),
                              !.done = @ \cup {"about"}, !.pc = AfterResolver("facilities")]
    /\ UNCHANGED <<appVars, page>>

ResolveFacilities ==
    /\ crawl.pc = "facilities"
    /\ crawl' = [crawl EXCEPT !.facilities = getFacilities(page),
                              !.done = @ \cup {"facilities"}, !.pc = AfterResolver("houseRules")]
    /\ UNCHANGED <<appVars, page>>

ResolveHouseRules ==
    /\ crawl.pc = "houseRules"
    /\ crawl' = [crawl EXCEPT !.houseRules = getHouseRules(page),
                              !.done = @ \cup {"houseRules"}, !.pc = AfterResolver("faqs")]
    /\ UNCHANGED <<appVars, page>>

ResolveFAQs ==
    /\ crawl.pc = "faqs"
    /\ crawl' = [crawl EXCEPT !.faqs = getFAQs(page),
                              !.done = @ \cup {"faqs"}, !.pc = AfterResolver("hotelAreaInfo")]
    /\ UNCHANGED <<appVars, page>>

ResolveHotelAreaInfo ==
    /\ crawl.pc = "hotelAreaInfo"
    /\ crawl' = [crawl EXCEPT !.hotelAreaInfo = getHotelAreaInfo(page),
                              !.done = @ \cup {"hotelAreaInfo"}, !.pc = AfterResolver("images")]
    /\ UNCHANGED <<appVars, page>>

\* a variant in which a failed gallery navigation makes crawlHotel fail
ResolveImagesFailing ==
    /\ crawl.pc = "images"
    /\ crawl' = [crawl EXCEPT !.images = getImages(page),
                              !.done = @ \cup {"images"},
                              !.pc = IF Throws(page) \/ page.galleryFails THEN "failed"
                                     ELSE "record"]
    /\ UNCHANGED <<appVars, page>>

\* getImages(url), awaited last (bookingCrawler.js:830-831)
ResolveImages ==
    /\ crawl.pc = "images"
    /\ crawl' = [crawl EXCEPT !.images = getImages(page),
                              !.done = @ \cup {"images"}, !.pc = AfterResolver("record")]
    /\ UNCHANGED <<appVars, page>>

\* crawlHotel assembles the record and returns it (bookingCrawler.js:833-850)
\* and crawl-hotel answers { success: true, data: result }
crawlHotelReturn ==
    /\ crawl.pc = "record"
    /\ crawl' = [crawl EXCEPT !.pc = "returned"]
    /\ UNCHANGED <<appVars, page>>

\* crawlerData.rating?.score, ?.reviewCount of a rating that is a number or
\* null: undefined
ScoreOf(rating) == NoNumber

ReviewCountOf(rating) == NoNumber

\* crawlerData.rating?.category of a rating that is a number or null
CategoryOf(rating) == NULL

\* processTask maps the crawler data to HotelData (App.tsx:138-156)
resultMapping ==
    /\ crawl.pc = "returned"
    /\ crawl' = [crawl EXCEPT
                    !.pc = "mapped",
                    !.stored = [name |-> IF Truthy(crawl.name) THEN crawl.name ELSE "Unknown Hotel",
                                address |-> IF Truthy(crawl.address) THEN crawl.address
                                            ELSE "No address",
                                rating |-> IF ScoreOf(crawl.rating) \in {NoNumber, 0} THEN 0
                                           ELSE ScoreOf(crawl.rating),
                                reviewCount |-> ReviewCountOf(crawl.rating),
                                ratingCategory |-> CategoryOf(crawl.rating)]]
    /\ UNCHANGED <<appVars, page>>

\* the browser session is closed under the crawl (stop-crawl, the catch
\* block of an overlapping invocation, a crash of the browser)
CloseSession ==
    /\ crawl.pc \notin {"idle", "failed", "returned", "mapped"}
    /\ page.session = "open"
    /\ page' = [page EXCEPT !.session = "closed"]
    /\ UNCHANGED <<appVars, crawl>>

\* pages that differ from the blank page in what one resolver reads
NamePages ==
    {[BlankPage EXCEPT !.schemaName = n, !.nameEls = e] :
        n \in {NULL, "", "schema name"}, e \in CascadeElements(4)}

AddressPages ==
    {[BlankPage EXCEPT !.schemaAddress = a, !.addressEls = e] :
        a \in SchemaAddresses, e \in CascadeElements(4)}

AboutPages ==
    {[BlankPage EXCEPT !.aboutTestId = t, !.schemaDescription = d, !.aboutEls = e] :
        t \in {NoElement, " ", " first "}, d \in {NULL, "", "schema description"},
        e \in CascadeElements(3)}

\* scores in tenths: schemaAggregate 93 is aggregateRating.ratingValue "9.3"
RatingPages ==
    {[BlankPage EXCEPT !.domStars = d, !.schemaStars = s, !.schemaAggregate = a] :
        d \in {NoNumber} \cup 0..5, s \in {NoNumber, 0, 4}, a \in {NoNumber, 55, 60, 75, 80, 93}}

FacilityPages ==
    {[BlankPage EXCEPT !.facilityItems = f, !.facilityFallback = g] :
        f \in SeqsUpTo({" ", "WiFi", " WiFi ", "Pool"}, MaxItems),
        g \in SeqsUpTo({"WiFi", "Pool"}, MaxItems)}

FaqElements ==
    {[question |-> "Q1", answer |-> "A1"], [question |-> "Q1", answer |-> "A2"],
     [question |-> "Q2", answer |-> NoElement]}

FaqPages ==
    {[BlankPage EXCEPT !.faqItems = f, !.faqFallback = g] :
        f \in SeqsUpTo(FaqElements, MaxItems),
        g \in SeqsUpTo({[question |-> "Q1", answer |-> "A1"]}, MaxItems)}

OtherPages ==
    {[BlankPage EXCEPT !.jsonCity = c, !.schemaLocality = l, !.houseRules = h, !.areaInfo = i,
                       !.schemaName = "schema name", !.domStars = 4,
                       !.galleryFails = x, !.gallerySrcs = g] :
        c \in {NULL, "Hanoi"}, l \in {NULL, "Ha Noi"}, h \in {NULL, "rules"},
        i \in {<<>>, <<"place">>}, x \in BOOLEAN,
        g \in SeqsUpTo({"http://a", "http://b", "data:image"}, MaxItems)}

Pages == NamePages \cup AddressPages \cup AboutPages \cup RatingPages \cup FacilityPages
            \cup FaqPages \cup OtherPages

\* ---- specification -------------------------------------------------------

SessionNext ==
    \/ Tick
    \/ DelayTimerFire
    \/ Commit
    \/ LoadResolve
    \/ \E s \in Slots : CrawlInitOk(s)
    \/ \E s \in Slots : CrawlInitFail(s)
    \/ \E s \in Slots : CrawlNavigateOk(s)
    \/ \E s \in Slots : CrawlNavigateFail(s)
    \/ \E s \in Slots : CrawlHotelOk(s)
    \/ \E s \in Slots : CrawlHotelFail(s)
    \/ \E n \in 1..MaxUrlsPerAdd : handleAddLinks(n)
    \/ ToggleRunning
    \/ \E v \in ConcurrencyInputs : handleConcurrencyChange(v)
    \/ \E id \in TaskIds : handleDeleteTask(id)
    \/ \E id \in TaskIds : handleResetTask(id)
    \/ \E sel \in SUBSET TaskIds : handleBulkReset(sel)
    \/ \E sel \in SUBSET TaskIds : handleBulkDelete(sel)
    \/ handleClearQueue

Next == SessionNext \/ Restart

Spec == Init /\ [][Next]_vars

\* One session of the application on an installation where the import of
\* the crawler module or the opening of the task store may have failed
\* (electron.cjs:203-219).
StartupInit ==
    /\ InitState
    /\ NoHotelPage
    /\ BookingCrawler \in BOOLEAN
    /\ taskDb \in BOOLEAN

StartupNext == SessionNext \/ \E s \in Slots : CrawlModuleMissing(s)

StartupSpec == StartupInit /\ [][StartupNext]_vars

\* prev.slice(-n) for n > 0: the last n elements of prev
SliceLast(prev, n) == IF Len(prev) <= n THEN prev ELSE SubSeq(prev, Len(prev) - n + 1, Len(prev))

\* a variant of the updater that keeps every entry
AppendLogKeepingAll(prev, entry) == Append(prev, entry)

\* the updater of setGlobalLogs in addLog (App.tsx:104)
AppendLog(prev, entry) == Append(SliceLast(prev, LogKeep), entry)

\* addLog (App.tsx:99-111) without a task id; the entry is identified by its
\* place in the order of the appends
addLog ==
    /\ logCount < MaxAppends
    /\ globalLogs' = AppendLog(globalLogs, logCount + 1)
    /\ logCount' = logCount + 1
    /\ UNCHANGED <<rendererVars, crawlers, activeCrawlers, db, now, nextId, restarts,
                   cancelled, envVars, pageVars>>

\* The log stream: appends, and the Clear button that empties it.
LogNext == addLog \/ handleClearQueue

LogSpec == Init /\ [][LogNext]_vars

\* One crawl of one hotel page, from the end of the navigation to the
\* stored result.
CrawlerInit ==
    /\ InitState
    /\ BookingCrawler = TRUE
    /\ taskDb = TRUE
    /\ page \in Pages
    /\ crawl = StartedCrawl

CrawlerNext ==
    \/ autoScroll
    \/ ResolveSchemaData
    \/ ResolveHotelName
    \/ ResolveAddress
    \/ ResolveRating
    \/ ResolveLocationDetails
    \/ ResolveAbout
    \/ ResolveFacilities
    \/ ResolveHouseRules
    \/ ResolveFAQs
    \/ ResolveHotelAreaInfo
    \/ ResolveImages
    \/ crawlHotelReturn
    \/ resultMapping
    \/ CloseSession

CrawlerSpec == CrawlerInit /\ [][CrawlerNext]_vars

\* One session of the application in which the operator also types into the
\* batch wait input.
BatchNext == SessionNext \/ \E v \in BatchWaitInputs : handleBatchWaitChange(v)

BatchSpec == Init /\ [][BatchNext]_vars

\* One session of the application in which something invokes stop-crawl.
CancelNext == SessionNext \/ \E id \in TaskIds : StopCrawl(id)

CancelSpec == Init /\ [][CancelNext]_vars

\* some browser operation of crawler s ends
CrawlStep(s) ==
    \/ CrawlInitOk(s) \/ CrawlInitFail(s)
    \/ CrawlNavigateOk(s) \/ CrawlNavigateFail(s)
    \/ CrawlHotelOk(s) \/ CrawlHotelFail(s)

\* The event loop runs every pending callback (commit, due timer, resolved
\* promise) and the interval period ends; nothing is assumed of the operator
\* or of the browser.
LoopFairness ==
    /\ WF_vars(Commit)
    /\ WF_vars(DelayTimerFire)
    /\ WF_vars(LoadResolve)
    /\ WF_vars(Tick)

LoopSpec == Spec /\ LoopFairness

\* In addition every browser operation ends (puppeteer's timeouts), and time
\* passes, however often a commit or a due timer comes in between.
Fairness ==
    /\ LoopFairness
    /\ SF_vars(Tick)
    /\ \A s \in Slots : SF_vars(CrawlStep(s))

FairSpec == Spec /\ Fairness

\* ---- properties ----------------------------------------------------------

StatusOf(q, id) == TaskOf(q, id).status

\* ids of the tasks that are in the queue before and after a step
Kept == IdsOf(queue) \cap IdsOf(queue')

\* a step in which processTask was entered (the only increment of the count)
TaskStarted == activeTaskCount' = activeTaskCount + 1

\* C1 as stated: in every reachable state the number of PROCESSING tasks is at
\* most config.concurrency.
C1_ProcessingWithinConcurrency == ProcessingCount(queue) <= config.concurrency

\* C1 amended: the scheduling check never raises the number of PROCESSING
\* tasks above config.concurrency: after every start of a task by checkQueue
\* the number of PROCESSING tasks is at most config.concurrency.
C1_StartsWithinConcurrency ==
    [][TaskStarted => ProcessingCount(queue') <= config'.concurrency]_vars

\* two tasks were started and fill the two slots of concurrency 2
C1_Witness ==
    /\ config.concurrency = 2
    /\ ProcessingCount(queue) = 2
    /\ activeTaskCount = 2

\* C2: for every task in the queue, result is set iff status is COMPLETED and
\* error is set iff status is ERROR.
C2_ResultErrorIffStatus ==
    \A i \in DOMAIN queue :
        /\ (queue[i].result # UNSET) <=> (queue[i].status = "COMPLETED")
        /\ (queue[i].error # UNSET) <=> (queue[i].status = "ERROR")

\* a reset of task id by the operator: single reset or bulk reset
ResetOf(id) == handleResetTask(id) \/ \E sel \in SUBSET TaskIds : id \in sel /\ handleBulkReset(sel)

IsCleared(t) ==
    /\ t.status = "WAITING"
    /\ t.result = UNSET
    /\ t.error = UNSET
    /\ t.progress = 0
    /\ t.finishedAt = NoTime

\* C3: resetting a task that is COMPLETED or ERROR (single or bulk reset)
\* leaves it with status WAITING, no result, no error, progress 0 and no
\* finishedAt.
C3_ResetClears ==
    [][\A id \in TaskIds :
          (id \in IdsOf(queue) /\ StatusOf(queue, id) \in {"COMPLETED", "ERROR"} /\ ResetOf(id))
              => (id \in IdsOf(queue') /\ IsCleared(TaskOf(queue', id)))]_vars

\* The only task ever added has run to its end (its delay timer is pending,
\* nothing is in flight) and is WAITING and cleared again: it was reset.
C3_Witness ==
    /\ nextId = 1
    /\ restarts = 0
    /\ Len(queue) = 1
    /\ IsCleared(queue[1])
    /\ TimerCount > 0
    /\ activeTaskCount = 0

AllowedTransitions ==
    {<<"WAITING", "PROCESSING">>, <<"PROCESSING", "COMPLETED">>, <<"PROCESSING", "ERROR">>,
     <<"COMPLETED", "WAITING">>, <<"ERROR", "WAITING">>}

\* C4: a task's status changes only along WAITING -> PROCESSING,
\* PROCESSING -> COMPLETED, PROCESSING -> ERROR and the reset
\* COMPLETED/ERROR -> WAITING.
C4_OnlyAllowedTransitions ==
    [][\A id \in Kept :
          \/ StatusOf(queue', id) = StatusOf(queue, id)
          \/ <<StatusOf(queue, id), StatusOf(queue', id)>> \in AllowedTransitions]_vars

\* C5: when the first page navigation of a task's crawl fails, the task ends
\* in ERROR with a non-empty error string and no result, and the active-task
\* count is decremented exactly once.
C5_NavigationFailure ==
    [][\A s \in Slots :
          (CrawlNavigateFail(s) /\ crawlers[s].task \in IdsOf(queue))
              => LET t == TaskOf(queue', crawlers[s].task) IN
                    /\ t.status = "ERROR"
                    /\ t.error \notin {UNSET, ""}
                    /\ t.result = UNSET
                    /\ activeTaskCount' = activeTaskCount - 1]_vars

IsTerminal(q, id) == StatusOf(q, id) \in {"COMPLETED", "ERROR"}

\* C6: while the orchestrator is paused no task is started, and every task
\* that is PROCESSING while it is paused with crawls in flight reaches
\* COMPLETED or ERROR (unless the operator resets or removes it).
C6_PausedHoldsAndDrains ==
    /\ [][~isRunning => ~TaskStarted]_vars
    /\ \A id \in TaskIds :
          [](((~isRunning) /\ activeTaskCount > 0
                /\ id \in IdsOf(queue) /\ StatusOf(queue, id) = "PROCESSING")
                => <>(\/ id \notin IdsOf(queue)
                      \/ IsTerminal(queue, id)
                      \/ StatusOf(queue, id) = "WAITING"))

\* delay timers that are not yet due
PendingDelays == TimerCount - timers[0]

\* C7: after a task terminates, the slot it freed is not used to start
\* another task before its delay timer is due: a task is started only if the
\* PROCESSING tasks together with the slots still under delay leave a slot.
C7_DelayBeforeSlotReuse ==
    [][TaskStarted => ProcessingCount(queueRef) + PendingDelays' < configRef.concurrency]_vars

\* task id goes from another status to PROCESSING in this step
BecomesProcessing(id) ==
    /\ id \in Kept
    /\ StatusOf(queue, id) # "PROCESSING"
    /\ StatusOf(queue', id) = "PROCESSING"

\* C8: whenever a task is moved to PROCESSING, no other WAITING task of the
\* queue was created earlier than it.
C8_StartsInArrivalOrder ==
    [][\A id \in TaskIds :
          BecomesProcessing(id)
              => \A i \in DOMAIN queue :
                    queue[i].status = "WAITING"
                        => queue[i].createdAt >= TaskOf(queue, id).createdAt]_vars

\* C9: a task in ERROR is never started again unless an operator reset moved
\* it back to WAITING first: no step takes a task from ERROR to PROCESSING,
\* and a step that takes it from ERROR to WAITING is a reset of that task.
C9_NoRetryWithoutReset ==
    [][\A id \in Kept :
          StatusOf(queue, id) = "ERROR"
              => \/ StatusOf(queue', id) \in {"ERROR", "COMPLETED"}
                 \/ StatusOf(queue', id) = "WAITING" /\ ResetOf(id)]_vars

\* The scheduling check has just run on a queue whose tasks are all in
\* ERROR: it stopped the orchestrator instead of starting one of them again.
C9_Witness ==
    /\ ~isRunning
    /\ runningRef
    /\ Len(queue) > 0
    /\ \A i \in DOMAIN queue : queue[i].status = "ERROR"

NoneWaitingOrProcessing(q) ==
    \A i \in DOMAIN q : q[i].status \notin {"WAITING", "PROCESSING"}

\* the orchestrator stops itself: isRunning is cleared by checkQueue, not by
\* the operator (whose click, like a restart, leaves runningRef false too)
SelfStop == isRunning /\ ~isRunning' /\ runningRef'

\* a scheduling check runs
CheckRuns == Tick \/ DelayTimerFire

\* C10: while running, the orchestrator stops itself exactly when a
\* scheduling check finds no WAITING and no PROCESSING task; it never stops
\* itself while the queue holds a WAITING or PROCESSING task; and once all
\* tasks are terminal it eventually stops (unless the operator gives it new
\* work).
C10_StopsWhenDone ==
    /\ [][SelfStop => (CheckRuns /\ runningRef /\ NoneWaitingOrProcessing(queueRef)
                        /\ NoneWaitingOrProcessing(queue'))]_vars
    /\ [][(CheckRuns /\ runningRef /\ isRunning /\ NoneWaitingOrProcessing(queueRef))
              => ~isRunning']_vars
    /\ [](isRunning /\ NoneWaitingOrProcessing(queue)
              => <>(~isRunning \/ ~NoneWaitingOrProcessing(queue)))

\* The orchestrator has just stopped itself with every task of a non-empty
\* queue terminal.
C10_Witness ==
    /\ ~isRunning
    /\ runningRef
    /\ Len(queue) > 0
    /\ NoneWaitingOrProcessing(queue)

\* page sessions in flight: crawl-hotel invocations that have not returned,
\* and browsers left open by one that has
SessionsInFlight == Cardinality({s \in Slots : crawlers[s].pc # "free"})

\* task id is in the queue with one of the given statuses
HasStatus(id, statuses) == id \in IdsOf(queue) /\ StatusOf(queue, id) \in statuses

\* task id is out of the scheduler's hands: finished, or removed by the
\* operator
Settled(id) == id \notin IdsOf(queue) \/ IsTerminal(queue, id)

\* C11: while running, every WAITING task is eventually moved to PROCESSING
\* and reaches COMPLETED or ERROR (unless the operator removes it or pauses);
\* the limit typed by the operator is taken to be at least 1.
C11_WaitingTasksFinish ==
    \A id \in TaskIds :
        [](isRunning /\ HasStatus(id, {"WAITING"})
            => <>(Settled(id) \/ ~isRunning \/ config.concurrency < 1))

\* C13: the number of page sessions in flight never exceeds
\* config.concurrency under start, pause/resume, completion, delete, reset
\* and bulk reset: no start of a crawl brings it above the limit.
C13_SessionsWithinConcurrency ==
    [][TaskStarted => SessionsInFlight' <= config'.concurrency]_vars

\* C14: after a restart, every reloaded task that is WAITING or PROCESSING
\* reaches COMPLETED or ERROR once the orchestrator is started (unless the
\* operator removes it or pauses), and the orchestrator then stops; the limit
\* typed by the operator is taken to be at least 1.
C14_ReloadedQueueResumes ==
    /\ \A id \in TaskIds :
          [](restarts > 0 /\ ~loadPending /\ isRunning /\ HasStatus(id, {"WAITING", "PROCESSING"})
                => <>(Settled(id) \/ ~isRunning \/ config.concurrency < 1))
    /\ [](restarts > 0 /\ ~loadPending /\ isRunning
                => <>(~isRunning \/ config.concurrency < 1))

\* the finishedAt of a task
FinishedAtOf(q, id) == TaskOf(q, id).finishedAt

\* C15: finishedAt is absent for every WAITING or PROCESSING task; for every
\* COMPLETED task it is present and not before createdAt; and it is written
\* only by a step that takes the task into COMPLETED or ERROR (a reset removes
\* it).
C15_FinishedAtOnTermination ==
    /\ [](\A i \in DOMAIN queue :
            /\ queue[i].status \in {"WAITING", "PROCESSING"} => queue[i].finishedAt = NoTime
            /\ queue[i].status = "COMPLETED"
                  => queue[i].finishedAt # NoTime /\ queue[i].finishedAt >= queue[i].createdAt)
    /\ [][\A id \in Kept :
            FinishedAtOf(queue', id) # FinishedAtOf(queue, id)
                => \/ FinishedAtOf(queue', id) = NoTime
                   \/ /\ IsTerminal(queue', id)
                      /\ StatusOf(queue', id) # StatusOf(queue, id)]_vars

\* C12: cancelling an in-flight task (stop-crawl for its id) closes the
\* browser session stored under the id and removes the entry from the map
\* without touching the queue, and afterwards the task, as long as its
\* session is the one torn down and every crawl of it is a cancelled one, is
\* not moved from PROCESSING to ERROR or COMPLETED.
StopCrawlStep(id) ==
    activeCrawlers[id] # 0 /\ activeCrawlers'[id] = 0 /\ activeCrawlers[id] \in cancelled' \ cancelled

InFlight(s) == crawlers[s].pc \in {"init", "nav", "fields"}

OnlyCancelledCrawls(id) ==
    /\ \E s \in cancelled : crawlers[s].task = id /\ InFlight(s) /\ crawlers[s].pc # "init"
                                /\ ~crawlers[s].open
    /\ \A s \in Slots : crawlers[s].task = id /\ InFlight(s) => s \in cancelled

C12_CancelKeepsStatus ==
    /\ [][\A id \in TaskIds :
            StopCrawlStep(id)
                => /\ ~crawlers'[activeCrawlers[id]].open
                   /\ queue' = queue]_vars
    /\ [][\A id \in Kept :
            StatusOf(queue, id) = "PROCESSING" /\ OnlyCancelledCrawls(id)
                => StatusOf(queue', id) \notin {"ERROR", "COMPLETED"}]_vars

\* C16: while the crawler module is not loaded no task is started.
C16_ConfigErrorBlocksCrawling == [][~BookingCrawler => ~TaskStarted]_vars

\* C18: a commit whose auto-save is refused by the main process leaves the
\* queue, the running flag, the configuration, the active count and the
\* delay timers as they were, and the refs read by the next scheduling
\* decision become the committed values; and no step taken without a task
\* store makes a task an ERROR task other than a failed crawl.
AutoSaveFails == ~taskDb /\ Len(queue) > 0 /\ ~loadPending

CommitStep == ~Committed /\ queueRef' = queue /\ runningRef' = isRunning /\ configRef' = config

C18_FailedSaveChangesNothing ==
    /\ [][AutoSaveFails /\ CommitStep
            => UNCHANGED <<queue, isRunning, config, activeTaskCount, timers>>]_vars
    /\ [][~taskDb /\ activeTaskCount' >= activeTaskCount
            => \A i \in DOMAIN queue' :
                  queue'[i].status = "ERROR"
                      => \E j \in DOMAIN queue : queue[j] = queue'[i]]_vars

\* the store is down and a queue holding a finished task has been committed
C18_Witness ==
    /\ ~taskDb
    /\ Committed
    /\ db = {}
    /\ \E i \in DOMAIN queue : queue[i].status = "COMPLETED"

\* C17: with a batch of one task (batchWait = 1) no task is started while
\* the delay timer of a terminated task is pending, that is, less than
\* delayPerLink seconds, and so less than batchWaitTime seconds, after a
\* task was processed.
C17_BatchPause ==
    [][config.batchWait = 1 /\ configRef.batchWait = 1
          /\ config.delayPerLink <= config.batchWaitTime /\ TaskStarted
            => PendingDelays = 0]_vars

\* C19: the step in which a crawl ends (its task completes or fails) leaves
\* the queue entry of every other task as it was, and leaves the crawler
\* instance and the map entry of every other task as they were.
TaskEnded == activeTaskCount' = activeTaskCount - 1 /\ restarts' = restarts

EndedCrawl(s) == TaskEnded /\ crawlers'[s].pc # crawlers[s].pc

C20_LogCapped ==
    /\ Len(globalLogs) <= 100
    /\ Len(globalLogs) = IF logCount < 100 THEN logCount ELSE 100
    /\ \A i \in DOMAIN globalLogs : globalLogs[i] = logCount - Len(globalLogs) + i

\* more than 100 entries were appended and the oldest ones are gone
C20_Witness == logCount > 100 /\ Len(globalLogs) = 100 /\ globalLogs[1] = logCount - 99

\* C28: a task is started only when no crawl of the same task is in flight.
CrawlStart(s) == TaskStarted /\ crawlers[s].pc = "free" /\ crawlers'[s].pc = "init"

C28_NoOverlappingCrawls ==
    [][\A s \in Slots :
          CrawlStart(s)
            => \A x \in Slots : ~(InFlight(x) /\ crawlers[x].task = crawlers'[s].task)]_vars

\* C29: no crawl-hotel invocation has returned leaving the browser it
\* launched open, and the map holds entries of running invocations only.
C29_SessionsClosedOnReturn ==
    /\ \A s \in Slots : crawlers[s].pc # "leaked"
    /\ \A id \in TaskIds : activeCrawlers[id] # 0 => InFlight(activeCrawlers[id])

\* C30: the resolution of the initial load removes no task from the queue,
\* and within a session a task leaves the queue only in an operator event
\* (delete, bulk delete, clear), which ends with the refs in sync.
C30_AddedTasksStay ==
    /\ [][loadPending /\ ~loadPending' => IdsOf(queue) \subseteq IdsOf(queue')]_vars
    /\ [][restarts' = restarts /\ ~(IdsOf(queue) \subseteq IdsOf(queue'))
            => \/ loadPending /\ ~loadPending'
               \/ Quiescent /\ Committed']_vars

\* the resolver named r has returned
Resolved(r) == crawl.pc # "idle" /\ r \in crawl.done

\* the category of a review score given in tenths
ThresholdCategory(tenths) ==
    IF tenths >= 90 THEN "Excellent"
    ELSE IF tenths >= 80 THEN "Very Good"
    ELSE IF tenths >= 70 THEN "Good"
    ELSE IF tenths >= 60 THEN "Pleasant"
    ELSE "Fair"

\* C21: when the rating resolver has ended with a number, the category of
\* the resolved rating is the one the thresholds give for it; and on a page
\* whose structured data carries an aggregate rating (9.3, 7.5, ...) and no
\* category label, the category is the one the thresholds give for that
\* rating.
C21_CategoryFromScore ==
    /\ Resolved("rating") /\ crawl.rating # NoNumber
          => CategoryOf(crawl.rating) = ThresholdCategory(crawl.rating * 10)
    /\ Resolved("rating") /\ page.session = "open" /\ page.schemaAggregate # NoNumber
          => CategoryOf(crawl.rating) = ThresholdCategory(page.schemaAggregate)

\* the trimmed text of the first selector of a cascade whose element has
\* text that is not empty, or null
FirstNonEmpty(els) ==
    IF \A k \in DOMAIN els : els[k] = NoElement \/ Trim(els[k]) = "" THEN NULL
    ELSE Trim(els[CHOOSE k \in DOMAIN els :
                    /\ els[k] # NoElement /\ Trim(els[k]) # ""
                    /\ \A j \in 1..(k - 1) : els[j] = NoElement \/ Trim(els[j]) = ""])

\* C22: a name, an address or a description resolved by the selector
\* cascade is the content of the first selector that yields content that is
\* not empty, or null if none does.
C22_CascadeSkipsEmpty ==
    /\ Resolved("name") /\ page.session = "open" /\ ~Truthy(crawl.schemaData.name)
          => crawl.name = FirstNonEmpty(page.nameEls)
    /\ Resolved("address") /\ page.session = "open" /\ ~Truthy(crawl.schemaData.address.value)
          => crawl.address = FirstNonEmpty(page.addressEls)
    /\ Resolved("about") /\ page.session = "open" /\ ~Truthy(crawl.schemaData.description)
            /\ (page.aboutTestId = NoElement \/ Trim(page.aboutTestId) = "")
          => crawl.about = FirstNonEmpty(page.aboutEls)

\* C23: when the structured data read from the page has a value for the
\* name, the address or the description and the selectors of the field
\* yield one too, the resolved value is the one of the structured data.
C23_StructuredDataWins ==
    /\ Resolved("name") /\ page.session = "open"
            /\ Truthy(crawl.schemaData.name) /\ Truthy(FirstNonEmpty(page.nameEls))
          => crawl.name = crawl.schemaData.name
    /\ Resolved("address") /\ page.session = "open"
            /\ Truthy(crawl.schemaData.address.value) /\ Truthy(FirstNonEmpty(page.addressEls))
          => crawl.address = crawl.schemaData.address.value
    /\ Resolved("about") /\ page.session = "open"
            /\ Truthy(crawl.schemaData.description)
            /\ \/ page.aboutTestId # NoElement /\ Truthy(Trim(page.aboutTestId))
               \/ Truthy(FirstNonEmpty(page.aboutEls))
          => crawl.about = crawl.schemaData.description

\* no two entries of a sequence are equal
NoDuplicates(q) == \A i, j \in DOMAIN q : i # j => q[i] # q[j]

\* C24: the resolved facilities hold no text twice and the resolved FAQs
\* hold no pair of question and answer twice.
C24_NoDuplicateEntries ==
    /\ Resolved("facilities") => NoDuplicates(crawl.facilities)
    /\ Resolved("faqs") => NoDuplicates(crawl.faqs)

\* C25: no step of a field resolver makes crawlHotel fail, and a resolver
\* that evaluates the page on a closed session returns null or an empty
\* collection (the name and the address resolver return the value of the
\* structured data read before, if there is one, without evaluating).
ResolverStep(r) == crawl.pc # "idle" /\ r \notin crawl.done /\ r \in crawl'.done

C25_ResolversNeverThrow ==
    /\ [][crawl.pc # "idle" /\ crawl'.pc = "failed" => crawl.pc = "scroll"]_vars
    /\ [][page.session = "closed" =>
            /\ ResolverStep("schemaData") => crawl'.schemaData = NoSchema
            /\ ResolverStep("name") => crawl'.name \in {NULL, crawl.schemaData.name}
            /\ ResolverStep("address") => crawl'.address \in {NULL, crawl.schemaData.address.value}
            /\ ResolverStep("rating") => crawl'.rating = NoNumber
            /\ ResolverStep("location") => crawl'.cityName = NULL
            /\ ResolverStep("about") => crawl'.about = NULL
            /\ ResolverStep("facilities") => crawl'.facilities = <<>>
            /\ ResolverStep("houseRules") => crawl'.houseRules = NULL
            /\ ResolverStep("faqs") => crawl'.faqs = <<>>
            /\ ResolverStep("hotelAreaInfo") => crawl'.hotelAreaInfo = <<>>
            /\ ResolverStep("images") => crawl'.images = <<>>]_vars

\* the session was closed during the crawl and crawlHotel has returned its
\* record all the same, the fields resolved after the close being empty
C25_Witness ==
    /\ crawl.pc = "returned"
    /\ page.session = "closed"
    /\ page.areaInfo # <<>> /\ crawl.hotelAreaInfo = <<>>
    /\ crawl.name = "schema name"

\* the resolvers crawlHotel awaits before getImages
EarlierResolvers ==
    {"schemaData", "name", "address", "rating", "location", "about", "facilities",
     "houseRules", "faqs", "hotelAreaInfo"}

\* the fields resolved before the images
EarlierFields(c) ==
    <<c.schemaData, c.name, c.address, c.rating, c.cityName, c.about, c.facilities,
      c.houseRules, c.faqs, c.hotelAreaInfo>>

\* C26: the gallery navigation is started when every other resolver has
\* returned; the step of the image resolver leaves the fields resolved
\* before as they are and crawlHotel goes on to return its record, with no
\* image when the gallery navigation failed.
C26_GalleryLast ==
    /\ [](crawl.pc = "images" => EarlierResolvers \subseteq crawl.done)
    /\ [][ResolverStep("images")
            => /\ crawl.pc = "images"
               /\ EarlierFields(crawl') = EarlierFields(crawl)
               /\ crawl'.pc = "record"
               /\ page.galleryFails => crawl'.images = <<>>]_vars

\* the gallery navigation failed and the record was returned with the
\* fields resolved before and no image
C26_Witness ==
    /\ crawl.pc = "returned"
    /\ page.session = "open"
    /\ page.galleryFails /\ page.gallerySrcs # <<>>
    /\ crawl.images = <<>>
    /\ crawl.name = "schema name" /\ crawl.rating = 4 /\ crawl.cityName = "Hanoi"

\* C27: the rating stored in the task's result is the rating the crawler
\* resolved; a resolved rating other than 0 is not stored as 0.
C27_StoredRatingIsResolved ==
    crawl.pc = "mapped" /\ crawl.rating # NoNumber => crawl.stored.rating = crawl.rating

====
